---- MODULE Spec2Model ----
(***************************************************************************)
(* Rooster, the command-line password manager: one run of the binary.      *)
(*                                                                         *)
(* The model follows src/main-rooster.rs (main, get_password_file,         *)
(* open_password_file, execute_command_from_filename) and                  *)
(* src/commands/change.rs (callback_exec) statement by statement.  The     *)
(* store engine (password::v2::PasswordStore, password::upgrade) and the   *)
(* `get` command are not part of these two files; they are modelled from   *)
(* their documented contract and marked as such where they are defined.    *)
(***************************************************************************)
EXTENDS Integers, Sequences, FiniteSets, TLC

(* ------------------------------------------------------------------ *)
(* Bounds of the model                                                *)
(* ------------------------------------------------------------------ *)

\* Timestamps (seconds since the epoch) range over 0..MaxTime.
MaxTime == 2

\* Standard input holds at most MaxLines lines before end of input.
MaxLines == 2

\* Nonces written by sync range over 1..MaxNonce (a stored file starts at 0).
MaxNonce == 1

Times == 0..MaxTime

(* ------------------------------------------------------------------ *)
(* Values                                                             *)
(* ------------------------------------------------------------------ *)

\* Master passphrases a user may type, and the marker of "none yet".
Passphrases == {"hunter2", "wrong"}
NoPassword == "<none>"

\* Application names and entry passwords.
AppNames == {"youtube", "github"}
EntryPasswords == {"p1", "p2"}

\* The two messages get_password_file puts in its own errors.
DONT_CREATE_PASSWORD_FILE == "DONT_CREATE_PASSWORD_FILE"
FAIL_READING_NEW_PASSWORD == "FAIL_READING_NEW_PASSWORD"

\* The command table: names main can dispatch to.
COMMANDS ==
    {"get", "add", "delete", "generate", "regenerate", "list", "export",
     "change-master-password", "rename", "change", "search"}

\* command_from_name: Some(c) when the name is in the table, None otherwise.
command_from_name(name) ==
    IF name \in COMMANDS THEN [some |-> TRUE, name |-> name]
                         ELSE [some |-> FALSE, name |-> ""]

\* password::v2::Password, one entry of the store.
Password(n, u, p, c, t) ==
    [name |-> n, username |-> u, password |-> p, created_at |-> c, updated_at |-> t]

\* The bytes of a password file, abstracted to what decoding can observe:
\* the format version tag, the passphrase the key was derived from, whether
\* and where the bytes were damaged, the nonce, and the entries inside.
\* len = 0 is the empty file.
EmptyBytes ==
    [len |-> 0, ver |-> 0, key |-> NoPassword, corrupt |-> "none", nonce |-> 0,
     entries |-> {}]

Bytes(v, k, c, n, es) ==
    [len |-> 1, ver |-> v, key |-> k, corrupt |-> c, nonce |-> n, entries |-> es]

\* Vec::is_empty on the bytes read.
is_empty(bytes) == bytes.len = 0

\* An in-memory PasswordStore, and the placeholder before one is built.
Store(k, es) == [key |-> k, entries |-> es]
NoStore == [key |-> NoPassword, entries |-> {}]

Max(a, b) == IF a >= b THEN a ELSE b

(* ------------------------------------------------------------------ *)
(* The store engine (password::v2 and password::upgrade).             *)
(* Its source is not among the files modelled; these operators follow *)
(* its documented contract.                                           *)
(* ------------------------------------------------------------------ *)

\* PasswordStore::from_input(passphrase, bytes): decode under the current
\* format (version 2).  A foreign version tag or a damaged header is a format
\* error; a damaged body or a key derived from another passphrase fails the
\* integrity check.
from_input(passphrase, bytes) ==
    IF bytes.ver # 2 \/ bytes.corrupt = "header"
    THEN [ok |-> FALSE, err |-> "FormatError", store |-> NoStore]
    ELSE IF bytes.corrupt = "body" \/ bytes.key # passphrase
    THEN [ok |-> FALSE, err |-> "AuthenticationError", store |-> NoStore]
    ELSE [ok |-> TRUE, err |-> "", store |-> Store(passphrase, bytes.entries)]

\* password::upgrade(passphrase, bytes): decode under the old scheme
\* (version 1) and rebuild the entries in the current schema.  A version with
\* no transition defined is unsupported; bytes already in the current format
\* decode as from_input does.
upgrade(passphrase, bytes) ==
    IF bytes.ver = 2 THEN from_input(passphrase, bytes)
    ELSE IF bytes.ver # 1
    THEN [ok |-> FALSE, err |-> "FormatError", store |-> NoStore]
    ELSE IF bytes.corrupt = "header"
    THEN [ok |-> FALSE, err |-> "FormatError", store |-> NoStore]
    ELSE IF bytes.corrupt = "body" \/ bytes.key # passphrase
    THEN [ok |-> FALSE, err |-> "AuthenticationError", store |-> NoStore]
    ELSE [ok |-> TRUE, err |-> "", store |-> Store(passphrase, bytes.entries)]

\* PasswordStore::new(passphrase): a fresh store with no entries.
new(passphrase) == Store(passphrase, {})

\* What sync writes: the entries encoded in the current format, encrypted
\* under the store's key with the nonce drawn for this write.
encode(st, nonce) == Bytes(2, st.key, "none", nonce, st.entries)

\* PasswordStore::has(name) and the entry of that name.
has_password(st, app_name) == \E e \in st.entries : e.name = app_name
get_password(st, app_name) == CHOOSE e \in st.entries : e.name = app_name

\* PasswordStore::change_password(name, transform): NotFound when absent and
\* the store is left as it was; otherwise the entry is replaced by the
\* transform's result, with updated_at overwritten so that it never moves
\* back.
change_password(st, app_name, transformed) ==
    IF ~has_password(st, app_name)
    THEN [ok |-> FALSE, err |-> "NotFound", store |-> st]
    ELSE LET old == get_password(st, app_name)
             new_entry == [transformed EXCEPT
                              !.updated_at = Max(old.updated_at, transformed.updated_at)]
         IN  [ok |-> TRUE, err |-> "",
              store |-> [st EXCEPT !.entries = (st.entries \ {old}) \cup {new_entry}]]

(* ------------------------------------------------------------------ *)
(* State                                                              *)
(* ------------------------------------------------------------------ *)

VARIABLES
    args,             \* getopts::Matches: [help, version, free]
    pc,               \* position of the run in main and its callees
    file_exists,      \* whether the password file exists on disk
    file_bytes,       \* the content of the password file
    file0,            \* [exists, bytes] of the file when the run started
    stdin,            \* lines still to be read from standard input
    master_password,  \* the master password main holds
    input,            \* the bytes execute_command_from_filename read
    store,            \* the in-memory PasswordStore
    change_log,       \* what `change` saw: entries before, password typed, clock
    trace,            \* calls made so far, each with its result
    msg,              \* the last message printed for an error
    exit_code         \* the process exit code, -1 while running

vars ==
    <<args, pc, file_exists, file_bytes, file0, stdin, master_password, input,
      store, change_log, trace, msg, exit_code>>

\* One call with its result, appended to the trace.
Call(name, result) == [call |-> name, result |-> result]
Log(name, result) == trace' = Append(trace, Call(name, result))

Called(name) == \E i \in 1..Len(trace) : trace[i].call = name
CalledWith(name, result) == \E i \in 1..Len(trace) : trace[i] = Call(name, result)

(* ------------------------------------------------------------------ *)
(* The inputs of a run                                                *)
(* ------------------------------------------------------------------ *)

\* Free arguments: none, an unknown command, `get`, `change` with and without
\* its application name.
FreeArgs ==
    {<<>>, <<"bogus">>, <<"get">>, <<"change">>,
     <<"change", "youtube">>, <<"change", "github">>}

Args == [help : BOOLEAN, version : BOOLEAN, free : FreeArgs]

\* Lines of standard input, each a sequence of characters ending in the
\* newline read_line keeps; err marks a read that fails (invalid UTF-8).
Lines ==
    {<<"y", "\n">>, <<"n", "o", "\n">>, <<"Y", "\n">>, <<"\n">>}

StdinItems ==
    {[err |-> FALSE, text |-> l] : l \in Lines} \cup {[err |-> TRUE, text |-> <<>>]}

RECURSIVE SeqsUpTo(_, _)
SeqsUpTo(S, n) ==
    IF n = 0 THEN {<<>>}
    ELSE LET shorter == SeqsUpTo(S, n - 1)
         IN  shorter \cup {Append(s, x) : s \in {t \in shorter : Len(t) = n - 1}, x \in S}

StdinContents == SeqsUpTo(StdinItems, MaxLines)

\* Entries a stored file may hold: updated_at >= created_at in each.
Stamps == {ct \in Times \X Times : ct[1] <= ct[2]}

StoredEntries ==
    {{}}
    \cup {{Password("youtube", "alice", "p1", ct[1], ct[2])} : ct \in Stamps}
    \cup {{Password("youtube", "alice", "p1", ct[1], ct[2]),
           Password("github", "bob", "p2", 0, 0)} : ct \in Stamps}

\* Contents of an existing password file: empty, or written by version 1, 2
\* or a later version 3, under some passphrase, intact or damaged.
StoredFiles ==
    {EmptyBytes}
    \cup {Bytes(v, k, c, 0, es) :
            v \in {1, 2, 3}, k \in Passphrases,
            c \in {"none", "header", "body"}, es \in StoredEntries}

NoChange == [entries |-> {}, password |-> "", time |-> 0, name |-> ""]

\* Standard input is read only by the create-file prompt, which runs only
\* when the file is missing, so it is left empty when the file exists.
Init ==
    /\ args \in Args
    /\ pc = "start"
    /\ \/ /\ file_exists = TRUE
          /\ file_bytes \in StoredFiles
          /\ stdin = <<>>
       \/ /\ file_exists = FALSE
          /\ file_bytes = EmptyBytes
          /\ stdin \in StdinContents
    /\ file0 = [exists |-> file_exists, bytes |-> file_bytes]
    /\ master_password = NoPassword
    /\ input = EmptyBytes
    /\ store = NoStore
    /\ change_log = NoChange
    /\ trace = <<>>
    /\ msg = ""
    /\ exit_code = -1

\* std::process::exit(code), after printing m when m is not empty.
Exit(code, m) ==
    /\ pc' = "done"
    /\ exit_code' = code
    /\ msg' = m

(* ------------------------------------------------------------------ *)
(* main, up to the point where a command is known                     *)
(* ------------------------------------------------------------------ *)

\* opts.parse fails on an option getopts does not know: exit(1).
main_parse_error ==
    /\ pc = "start"
    /\ Exit(1, "bad_option")
    /\ UNCHANGED <<args, file_exists, file_bytes, file0, stdin, master_password,
                   input, store, change_log, trace>>

\* get_password_file_path fails (no $ROOSTER_FILE and no home directory, or a
\* value that is not unicode): exit(1).
main_path_error ==
    /\ pc = "start"
    /\ Exit(1, "no_password_file_path")
    /\ UNCHANGED <<args, file_exists, file_bytes, file0, stdin, master_password,
                   input, store, change_log, trace>>

\* Global help was requested: usage, exit(0).
main_global_help ==
    /\ pc = "start"
    /\ args.help /\ args.free = <<>>
    /\ Exit(0, "usage")
    /\ UNCHANGED <<args, file_exists, file_bytes, file0, stdin, master_password,
                   input, store, change_log, trace>>

\* The version was requested: exit(0).
main_version ==
    /\ pc = "start"
    /\ ~(args.help /\ args.free = <<>>)
    /\ args.version
    /\ Exit(0, "version")
    /\ UNCHANGED <<args, file_exists, file_bytes, file0, stdin, master_password,
                   input, store, change_log, trace>>

\* No command was given: usage, exit(1).
main_no_command ==
    /\ pc = "start"
    /\ ~(args.help /\ args.free = <<>>)
    /\ ~args.version
    /\ args.free = <<>>
    /\ Exit(1, "usage")
    /\ UNCHANGED <<args, file_exists, file_bytes, file0, stdin, master_password,
                   input, store, change_log, trace>>

\* The command name is not in the table: exit(1).
main_unknown_command ==
    /\ pc = "start"
    /\ ~args.version
    /\ args.free # <<>>
    /\ ~command_from_name(args.free[1]).some
    /\ Exit(1, "command_does_not_exist")
    /\ UNCHANGED <<args, file_exists, file_bytes, file0, stdin, master_password,
                   input, store, change_log, trace>>

\* Help was requested for a known command: callback_help, exit(0).
main_command_help ==
    /\ pc = "start"
    /\ ~args.version
    /\ args.free # <<>>
    /\ command_from_name(args.free[1]).some
    /\ args.help
    /\ Exit(0, "command_help")
    /\ UNCHANGED <<args, file_exists, file_bytes, file0, stdin, master_password,
                   input, store, change_log, trace>>

\* main_command with the check for help on a command left out: the command is
\* run although its help was asked for.
main_command_without_help_check ==
    /\ pc = "start"
    /\ ~args.version
    /\ args.free # <<>>
    /\ command_from_name(args.free[1]).some
    /\ pc' = "open"
    /\ UNCHANGED <<args, file_exists, file_bytes, file0, stdin, master_password,
                   input, store, change_log, trace, msg, exit_code>>

\* A known command is to be executed: main calls get_password_file.
main_command ==
    /\ pc = "start"
    /\ ~args.version
    /\ args.free # <<>>
    /\ command_from_name(args.free[1]).some
    /\ ~args.help
    /\ pc' = "open"
    /\ UNCHANGED <<args, file_exists, file_bytes, file0, stdin, master_password,
                   input, store, change_log, trace, msg, exit_code>>

(* ------------------------------------------------------------------ *)
(* get_password_file and open_password_file                           *)
(* ------------------------------------------------------------------ *)

\* open_password_file(filename, create): read+write, created when create is
\* set and the file is missing.  io_ok is FALSE when the operating system
\* refuses the open for another reason (permissions, a missing directory).
open_password_file(create, io_ok) ==
    IF ~io_ok THEN "Other"
    ELSE IF file_exists THEN "Ok"
    ELSE IF create THEN "Created"
    ELSE "NotFound"

\* main's message for an error of get_password_file, by the error's text.
get_password_file_error(err) ==
    IF err = DONT_CREATE_PASSWORD_FILE THEN "cant_go_on_without_password_file"
    ELSE IF err = FAIL_READING_NEW_PASSWORD THEN "couldnt_read_master_password"
    ELSE "cant_find_password_file"

\* The first open, without create: the file, NotFound (on to the prompt
\* loop), or another error returned as is.
gpf_open ==
    /\ pc = "open"
    /\ \E io_ok \in BOOLEAN :
         LET r == open_password_file(FALSE, io_ok)
         IN  CASE r = "Ok" ->
                    /\ pc' = "ask_master"
                    /\ UNCHANGED <<msg, exit_code>>
               [] r = "NotFound" ->
                    /\ pc' = "prompt"
                    /\ UNCHANGED <<msg, exit_code>>
               [] OTHER -> Exit(1, get_password_file_error("io"))
    /\ UNCHANGED <<args, file_exists, file_bytes, file0, stdin, master_password,
                   input, store, change_log, trace>>

\* str::starts_with on a line.
starts_with(line, c) == Len(line) > 0 /\ line[1] = c

\* Top of the loop: the create question is printed.
gpf_prompt ==
    /\ pc = "prompt"
    /\ pc' = "read_line"
    /\ msg' = "would_you_like_to_create_one"
    /\ UNCHANGED <<args, file_exists, file_bytes, file0, stdin, master_password,
                   input, store, change_log, trace, exit_code>>

\* gpf_read_line with the file created as soon as the answer is 'y', before
\* the new master password is read.
gpf_read_line_creating ==
    /\ pc = "read_line"
    /\ IF stdin # <<>> /\ Head(stdin).err
       THEN /\ Exit(1, get_password_file_error("io"))
            /\ stdin' = Tail(stdin)
            /\ Log("read_line", "Err")
            /\ UNCHANGED file_exists
       ELSE LET line == IF stdin = <<>> THEN <<>> ELSE Head(stdin).text
            IN  /\ stdin' = IF stdin = <<>> THEN <<>> ELSE Tail(stdin)
                /\ IF starts_with(line, "y")
                   THEN /\ pc' = "new_master"
                        /\ msg' = "awesome"
                        /\ Log("answer", "y")
                        /\ file_exists' = TRUE
                        /\ UNCHANGED exit_code
                   ELSE IF starts_with(line, "n")
                   THEN /\ Exit(1, get_password_file_error(DONT_CREATE_PASSWORD_FILE))
                        /\ Log("answer", "n")
                        /\ UNCHANGED file_exists
                   ELSE /\ pc' = "prompt"
                        /\ msg' = "i_didnt_get_that"
                        /\ UNCHANGED <<trace, exit_code, file_exists>>
    /\ UNCHANGED <<args, file_bytes, file0, master_password,
                   input, store, change_log>>

\* read_line and the branch on the answer.  At end of input read_line
\* returns Ok(0) and leaves the line empty.
gpf_read_line ==
    /\ pc = "read_line"
    /\ IF stdin # <<>> /\ Head(stdin).err
       THEN /\ Exit(1, get_password_file_error("io"))
            /\ stdin' = Tail(stdin)
            /\ Log("read_line", "Err")
       ELSE LET line == IF stdin = <<>> THEN <<>> ELSE Head(stdin).text
            IN  /\ stdin' = IF stdin = <<>> THEN <<>> ELSE Tail(stdin)
                /\ IF starts_with(line, "y")
                   THEN /\ pc' = "new_master"
                        /\ msg' = "awesome"
                        /\ Log("answer", "y")
                        /\ UNCHANGED exit_code
                   ELSE IF starts_with(line, "n")
                   THEN /\ Exit(1, get_password_file_error(DONT_CREATE_PASSWORD_FILE))
                        /\ Log("answer", "n")
                   ELSE /\ pc' = "prompt"
                        /\ msg' = "i_didnt_get_that"
                        /\ UNCHANGED <<trace, exit_code>>
    /\ UNCHANGED <<args, file_exists, file_bytes, file0, master_password,
                   input, store, change_log>>

\* Results of prompt_password_stderr: a passphrase, or an error.
PromptResults ==
    {[ok |-> TRUE, value |-> p] : p \in Passphrases}
    \cup {[ok |-> FALSE, value |-> NoPassword]}

\* After 'y': the new master password is read.
gpf_new_master ==
    /\ pc = "new_master"
    /\ \E r \in PromptResults :
         IF r.ok
         THEN /\ master_password' = r.value
              /\ pc' = "create"
              /\ Log("new_master", "Ok")
              /\ UNCHANGED <<msg, exit_code>>
         ELSE /\ Exit(1, get_password_file_error(FAIL_READING_NEW_PASSWORD))
              /\ Log("new_master", "Err")
              /\ UNCHANGED master_password
    /\ UNCHANGED <<args, file_exists, file_bytes, file0, stdin,
                   input, store, change_log>>

\* Then the file is opened with create set, and get_password_file returns
\* the new master password and the file.
gpf_create ==
    /\ pc = "create"
    /\ \E io_ok \in BOOLEAN :
         LET r == open_password_file(TRUE, io_ok)
         IN  IF r \in {"Ok", "Created"}
             THEN /\ file_exists' = TRUE
                  /\ pc' = "read_file"
                  /\ msg' = "running_rooster"
                  /\ Log("create", r)
                  /\ UNCHANGED exit_code
             ELSE /\ Exit(1, get_password_file_error("io"))
                  /\ Log("create", "Err")
                  /\ UNCHANGED file_exists
    /\ UNCHANGED <<args, file_bytes, file0, stdin, master_password,
                   input, store, change_log>>

\* The file existed: main asks for the master password.
main_ask_master ==
    /\ pc = "ask_master"
    /\ \E r \in PromptResults :
         IF r.ok
         THEN /\ master_password' = r.value
              /\ pc' = "read_file"
              /\ UNCHANGED <<msg, exit_code>>
         ELSE /\ Exit(1, "could_not_read_master_password")
              /\ UNCHANGED master_password
    /\ UNCHANGED <<args, file_exists, file_bytes, file0, stdin,
                   input, store, change_log, trace>>

(* ------------------------------------------------------------------ *)
(* execute_command_from_filename                                      *)
(* ------------------------------------------------------------------ *)

\* file.read_to_end(&mut input).map_err(|_| 1)?
exec_read ==
    /\ pc = "read_file"
    /\ \E io_ok \in BOOLEAN :
         IF io_ok
         THEN /\ input' = file_bytes
              /\ pc' = "load"
              /\ Log("read_to_end", "Ok")
              /\ UNCHANGED <<msg, exit_code>>
         ELSE /\ Exit(1, msg)
              /\ Log("read_to_end", "Err")
              /\ UNCHANGED input
    /\ UNCHANGED <<args, file_exists, file_bytes, file0, stdin, master_password,
                   store, change_log>>

\* exec_load with upgrade tried first on a file that is not empty.
exec_load_upgrade_first ==
    /\ pc = "load"
    /\ IF is_empty(input)
       THEN \E entropy_ok \in BOOLEAN :
              IF entropy_ok
              THEN /\ store' = new(master_password)
                   /\ pc' = "exec"
                   /\ Log("new", "Ok")
                   /\ UNCHANGED <<msg, exit_code>>
              ELSE /\ Exit(1, msg)
                   /\ Log("new", "Err")
                   /\ UNCHANGED store
       ELSE /\ pc' = "upgrade"
            /\ UNCHANGED <<store, msg, exit_code, trace>>
    /\ UNCHANGED <<args, file_exists, file_bytes, file0, stdin, master_password,
                   input, change_log>>

\* exec_load with upgrade left out after an authentication failure.
exec_load_stopping_on_authentication ==
    /\ pc = "load"
    /\ IF is_empty(input)
       THEN \E entropy_ok \in BOOLEAN :
              IF entropy_ok
              THEN /\ store' = new(master_password)
                   /\ pc' = "exec"
                   /\ Log("new", "Ok")
                   /\ UNCHANGED <<msg, exit_code>>
              ELSE /\ Exit(1, msg)
                   /\ Log("new", "Err")
                   /\ UNCHANGED store
       ELSE LET r == from_input(master_password, input)
            IN  IF r.ok
                THEN /\ store' = r.store
                     /\ pc' = "exec"
                     /\ Log("from_input", "Ok")
                     /\ UNCHANGED <<msg, exit_code>>
                ELSE IF r.err = "AuthenticationError"
                THEN /\ Exit(1, "wrong_master_password")
                     /\ Log("from_input", r.err)
                     /\ UNCHANGED store
                ELSE /\ pc' = "upgrade"
                     /\ Log("from_input", r.err)
                     /\ UNCHANGED <<store, msg, exit_code>>
    /\ UNCHANGED <<args, file_exists, file_bytes, file0, stdin, master_password,
                   input, change_log>>

\* exec_load falling back to a new store when from_input fails.
exec_load_new_on_failure ==
    /\ pc = "load"
    /\ IF is_empty(input)
       THEN \E entropy_ok \in BOOLEAN :
              IF entropy_ok
              THEN /\ store' = new(master_password)
                   /\ pc' = "exec"
                   /\ Log("new", "Ok")
                   /\ UNCHANGED <<msg, exit_code>>
              ELSE /\ Exit(1, msg)
                   /\ Log("new", "Err")
                   /\ UNCHANGED store
       ELSE LET r == from_input(master_password, input)
            IN  IF r.ok
                THEN /\ store' = r.store
                     /\ pc' = "exec"
                     /\ Log("from_input", "Ok")
                     /\ UNCHANGED <<msg, exit_code>>
                ELSE /\ store' = new(master_password)
                     /\ pc' = "exec"
                     /\ trace' = trace \o <<Call("from_input", r.err), Call("new", "Ok")>>
                     /\ UNCHANGED <<msg, exit_code>>
    /\ UNCHANGED <<args, file_exists, file_bytes, file0, stdin, master_password,
                   input, change_log>>

\* The first stage of the load: a new store for an empty file, otherwise
\* from_input; any error of from_input leads on to upgrade.
exec_load ==
    /\ pc = "load"
    /\ IF is_empty(input)
       THEN \E entropy_ok \in BOOLEAN :
              IF entropy_ok
              THEN /\ store' = new(master_password)
                   /\ pc' = "exec"
                   /\ Log("new", "Ok")
                   /\ UNCHANGED <<msg, exit_code>>
              ELSE /\ Exit(1, msg)
                   /\ Log("new", "Err")
                   /\ UNCHANGED store
       ELSE LET r == from_input(master_password, input)
            IN  IF r.ok
                THEN /\ store' = r.store
                     /\ pc' = "exec"
                     /\ Log("from_input", "Ok")
                     /\ UNCHANGED <<msg, exit_code>>
                ELSE /\ pc' = "upgrade"
                     /\ Log("from_input", r.err)
                     /\ UNCHANGED <<store, msg, exit_code>>
    /\ UNCHANGED <<args, file_exists, file_bytes, file0, stdin, master_password,
                   input, change_log>>

\* load_failure_message telling the error kinds apart.
load_failure_message_by_kind(first_err, second_err) ==
    "could_not_open_" \o first_err \o "_" \o second_err

\* The message printed when neither from_input nor upgrade could open the
\* file; the two errors are dropped (Err(_)) and the text is fixed.
load_failure_message(first_err, second_err) == "could_not_upgrade_the_rooster_file"

\* The error from_input returned, as the trace recorded it.
from_input_error ==
    IF Called("from_input")
    THEN LET i == CHOOSE i \in 1..Len(trace) : trace[i].call = "from_input"
         IN  trace[i].result
    ELSE ""

\* exec_upgrade writing the migrated store to the file at once.
exec_upgrade_persisting ==
    /\ pc = "upgrade"
    /\ LET r == upgrade(master_password, input)
       IN  IF r.ok
           THEN /\ store' = r.store
                /\ pc' = "exec"
                /\ Log("upgrade", "Ok")
                /\ file_bytes' = encode(r.store, 1)
                /\ UNCHANGED <<msg, exit_code>>
           ELSE /\ Exit(1, load_failure_message(from_input_error, r.err))
                /\ Log("upgrade", r.err)
                /\ UNCHANGED <<store, file_bytes>>
    /\ UNCHANGED <<args, file_exists, file0, stdin, master_password,
                   input, change_log>>

\* The second stage of the load: upgrade, and on its failure the message and
\* Err(1).
exec_upgrade ==
    /\ pc = "upgrade"
    /\ LET r == upgrade(master_password, input)
       IN  IF r.ok
           THEN /\ store' = r.store
                /\ pc' = "exec"
                /\ Log("upgrade", "Ok")
                /\ UNCHANGED <<msg, exit_code>>
           ELSE /\ Exit(1, load_failure_message(from_input_error, r.err))
                /\ Log("upgrade", r.err)
                /\ UNCHANGED store
    /\ UNCHANGED <<args, file_exists, file_bytes, file0, stdin, master_password,
                   input, change_log>>

\* callback_returned with the error of the callback dropped: the run goes on
\* to sync whatever the callback returned.
callback_returned_ignoring_error(code, m) ==
    /\ pc' = "sync"
    /\ Log("callback", IF code = 0 THEN "Ok" ELSE "Err")
    /\ UNCHANGED <<msg, exit_code>>

\* (command.callback_exec)(matches, &mut store)?  : on Ok the run goes on to
\* sync, on Err(code) execute_command_from_filename returns Err(code) and main
\* exits with it.
callback_returned(code, m) ==
    IF code = 0
    THEN /\ pc' = "sync"
         /\ Log("callback", "Ok")
         /\ UNCHANGED <<msg, exit_code>>
    ELSE /\ Exit(code, m)
         /\ Log("callback", "Err")

(* commands::get::callback_exec, which is not among the files modelled: a
   read-only command, it leaves the store as it is and returns Ok or
   Err(1). *)
callback_exec_get ==
    /\ pc = "exec"
    /\ args.free[1] = "get"
    /\ \E code \in {0, 1} : callback_returned(code, "get_failed")
    /\ UNCHANGED <<args, file_exists, file_bytes, file0, stdin, master_password,
                   input, store, change_log>>

\* new_password_entry with created_at reset to the clock as well.
new_password_entry_resetting_created_at(old_password, password_as_string, time) ==
    [name |-> old_password.name,
     username |-> old_password.username,
     password |-> password_as_string,
     created_at |-> time,
     updated_at |-> time]

\* The closure `change` passes to change_password: the old entry with the
\* password typed and updated_at read from the clock.
new_password_entry(old_password, password_as_string, time) ==
    [name |-> old_password.name,
     username |-> old_password.username,
     password |-> password_as_string,
     created_at |-> old_password.created_at,
     updated_at |-> time]

\* change_result_code with the error of change_password swallowed.
change_result_code_always_ok(ok) == 0

\* The code callback_exec returns for the result of change_password.
change_result_code(ok) == IF ok THEN 0 ELSE 1

\* commands::change::callback_exec.  The messages it prints on success (the
\* password shown, or copied to the clipboard) change no state and are left
\* out.
callback_exec_change ==
    /\ pc = "exec"
    /\ args.free[1] = "change"
    /\ IF Len(args.free) < 2
       THEN /\ callback_returned(1, "app_name_missing")
            /\ UNCHANGED <<store, change_log>>
       ELSE LET app_name == args.free[2]
            IN  \/ /\ callback_returned(1, "couldnt_read_the_apps_password")
                   /\ UNCHANGED <<store, change_log>>
                \/ \E password_as_string \in EntryPasswords, time \in Times :
                     LET transformed ==
                             IF has_password(store, app_name)
                             THEN new_password_entry(get_password(store, app_name),
                                                     password_as_string, time)
                             ELSE Password("", "", "", 0, 0)
                         r == change_password(store, app_name, transformed)
                     IN  /\ store' = r.store
                         /\ change_log' =
                              [entries |-> store.entries,
                               password |-> password_as_string,
                               time |-> IF r.ok THEN time ELSE 0,
                               name |-> app_name]
                         /\ callback_returned(change_result_code(r.ok),
                                              IF r.ok THEN msg
                                              ELSE "couldnt_save_the_new_password_" \o r.err)
    /\ UNCHANGED <<args, file_exists, file_bytes, file0, stdin, master_password,
                   input>>

\* store.sync(file): on Ok the file holds the store encoded under a fresh
\* nonce; on Err the file is as it was and the run ends with Err(1).
exec_sync ==
    /\ pc = "sync"
    /\ \/ \E nonce \in (1..MaxNonce) \ {input.nonce} :
            /\ file_bytes' = encode(store, nonce)
            /\ Log("sync", "Ok")
            /\ Exit(0, msg)
       \/ /\ Log("sync", "Err")
          /\ Exit(1, "could_not_save_the_password_file")
          /\ UNCHANGED file_bytes
    /\ UNCHANGED <<args, file_exists, file0, stdin, master_password,
                   input, store, change_log>>

(* ------------------------------------------------------------------ *)
(* The run                                                            *)
(* ------------------------------------------------------------------ *)

Next ==
    \/ main_parse_error
    \/ main_path_error
    \/ main_global_help
    \/ main_version
    \/ main_no_command
    \/ main_unknown_command
    \/ main_command_help
    \/ main_command
    \/ gpf_open
    \/ gpf_prompt
    \/ gpf_read_line
    \/ gpf_new_master
    \/ gpf_create
    \/ main_ask_master
    \/ exec_read
    \/ exec_load
    \/ exec_upgrade
    \/ callback_exec_get
    \/ callback_exec_change
    \/ exec_sync

Spec == Init /\ [][Next]_vars

\* A run that can take a step takes one: the process is a single thread that
\* runs until it exits, and every read it waits on returns (a line, an error
\* or end of input).
FairSpec == Spec /\ WF_vars(Next)

(* ------------------------------------------------------------------ *)
(* Properties                                                         *)
(* ------------------------------------------------------------------ *)

\* Position of the first call of that name in the trace, 0 when there is none.
IndexOf(name) ==
    IF Called(name)
    THEN CHOOSE i \in 1..Len(trace) :
           /\ trace[i].call = name
           /\ \A j \in 1..(i - 1) : trace[j].call # name
    ELSE 0

Command == IF args.free = <<>> THEN "" ELSE args.free[1]

\* Both stages of the load were tried and both failed.
LoadFailed == Called("upgrade") /\ ~CalledWith("upgrade", "Ok")

\* C1: for a password file that is not empty, upgrade is reached only after
\* from_input was tried on the same passphrase and bytes and failed; it is
\* never the first load attempt and never follows a from_input that succeeded.
C1_UpgradeOnlyAfterFromInputFailed ==
    (pc = "upgrade" \/ Called("upgrade")) =>
        /\ ~is_empty(input)
        /\ Called("from_input")
        /\ ~CalledWith("from_input", "Ok")
        /\ ~from_input(master_password, input).ok
        /\ Called("upgrade") => IndexOf("from_input") < IndexOf("upgrade")
        /\ \A i \in 1..Len(trace) :
             trace[i].call \in {"from_input", "upgrade", "new"} =>
                 IndexOf("from_input") <= i

C1_Witness ==
    /\ CalledWith("upgrade", "Ok")
    /\ CalledWith("from_input", "FormatError")
    /\ pc = "exec"

\* C2 as claimed, on a file that already holds a store: a run of a read-only
\* command (get) leaves the content of the password file as it was, also when
\* the store came from upgrade.
C2_ReadOnlyRunLeavesFile ==
    (pc = "done" /\ Command = "get" /\ file0.exists /\ ~is_empty(file0.bytes)) =>
        file_bytes = file0.bytes

\* C2 amended: upgrade by itself writes nothing and the file changes only
\* through a sync that succeeded; but every run whose command returned Ok,
\* get included, ends in sync, and a sync that succeeds leaves the file holding
\* the store in the current format under a nonce other than the one read.
C2_FileWrittenOnlyBySync ==
    /\ file_bytes # file0.bytes => CalledWith("sync", "Ok")
    /\ (pc = "done" /\ CalledWith("callback", "Ok")) => Called("sync")
    /\ CalledWith("sync", "Ok") =>
         /\ file_bytes = encode(store, file_bytes.nonce)
         /\ file_bytes.nonce # input.nonce
         /\ file_bytes # file0.bytes

C2_Witness ==
    /\ pc = "done"
    /\ Command = "get"
    /\ CalledWith("upgrade", "Ok")
    /\ exit_code = 0
    /\ file0.bytes.ver = 1
    /\ file_bytes.ver = 2

\* A stage of execute_command_from_filename failed.
StageFailed ==
    \/ CalledWith("read_to_end", "Err")
    \/ CalledWith("new", "Err")
    \/ LoadFailed
    \/ CalledWith("callback", "Err")
    \/ CalledWith("sync", "Err")

\* C3: once a stage of execute_command_from_filename has failed, the run is
\* over with a nonzero exit code and the failed call is the last call made;
\* unless sync is what failed, sync was not called and the file holds what it
\* held when the run started.
C3_FailureAbortsPipeline ==
    StageFailed =>
        /\ pc = "done"
        /\ exit_code # 0
        /\ trace[Len(trace)].result \notin {"Ok", "y", "Created"}
        /\ \A i \in 1..(Len(trace) - 1) :
             trace[i].result \in {"Ok", "y", "Created"}
             \/ (trace[i].call = "from_input" /\ trace[i + 1].call = "upgrade")
        /\ ~CalledWith("sync", "Err") =>
             /\ ~Called("sync")
             /\ file_bytes = file0.bytes

C3_Witness ==
    /\ CalledWith("callback", "Err")
    /\ CalledWith("upgrade", "Ok")
    /\ pc = "done"
    /\ exit_code = 1

\* C4 as claimed: upgrade is tried only after from_input failed with a format
\* error, not after an authentication failure.
C4_UpgradeOnlyOnFormatError ==
    (pc = "upgrade" \/ Called("upgrade")) => CalledWith("from_input", "FormatError")

\* C4 amended: upgrade is tried exactly when from_input failed, whatever the
\* error, after an authentication failure as after a format error.
C4_UpgradeOnAnyFromInputError ==
    /\ (pc = "upgrade" \/ Called("upgrade")) =>
          \/ CalledWith("from_input", "FormatError")
          \/ CalledWith("from_input", "AuthenticationError")
    /\ (Called("from_input") /\ ~CalledWith("from_input", "Ok")) =>
          (pc = "upgrade" \/ Called("upgrade"))

C4_Witness ==
    /\ CalledWith("from_input", "AuthenticationError")
    /\ Called("upgrade")
    /\ input.ver = 2
    /\ input.corrupt = "none"
    /\ input.key # master_password

\* C5: bytes that are empty give a store built by new, with neither from_input
\* nor upgrade tried; bytes that are not empty never lead to new, and a load of
\* them that fails leaves the file as it was, with no sync.
C5_NewOnlyForEmptyFile ==
    /\ Called("new") =>
         /\ is_empty(input)
         /\ ~Called("from_input")
         /\ ~Called("upgrade")
    /\ (Called("from_input") \/ Called("upgrade") \/ pc = "upgrade") =>
         /\ ~is_empty(input)
         /\ ~Called("new")
    /\ (CalledWith("read_to_end", "Ok") /\ pc # "load") =>
         (is_empty(input) <=> Called("new"))
    /\ (CalledWith("read_to_end", "Ok") /\ ~is_empty(input) /\ LoadFailed) =>
         /\ file_bytes = file0.bytes
         /\ ~Called("sync")

C5_Witness ==
    /\ file0.exists
    /\ is_empty(file0.bytes)
    /\ CalledWith("new", "Ok")
    /\ pc = "exec"

\* C6: every run whose load fails ends with the same observable outcome,
\* whatever made it fail (a wrong passphrase, a damaged body, a damaged header,
\* a foreign version): the same message, exit code 1, no command run, no sync,
\* the file as it was.
C6_LoadFailureLooksTheSame ==
    LoadFailed =>
        /\ pc = "done"
        /\ msg = "could_not_upgrade_the_rooster_file"
        /\ exit_code = 1
        /\ ~Called("callback")
        /\ ~Called("sync")
        /\ file_bytes = file0.bytes
        /\ file_exists = file0.exists

C6_Witness ==
    /\ LoadFailed
    /\ input.ver = 2
    /\ input.corrupt = "none"
    /\ input.key # master_password
    /\ CalledWith("from_input", "AuthenticationError")

\* `change` called change_password on this name, with these entries in the
\* store.
ChangeAttempted == change_log.name # ""
PriorHas == \E e \in change_log.entries : e.name = change_log.name
PriorEntry == CHOOSE e \in change_log.entries : e.name = change_log.name

\* C7: after a `change` that succeeded on an existing entry, whatever the
\* entry held before and whatever the clock returned: updated_at is at least
\* the prior updated_at and at least created_at; created_at, name and username
\* are as before; the password is the one typed; the other entries are as
\* before.
C7_ChangeKeepsEntryAndTime ==
    (ChangeAttempted /\ CalledWith("callback", "Ok")) =>
        /\ PriorHas
        /\ Cardinality({e \in store.entries : e.name = change_log.name}) = 1
        /\ LET old == PriorEntry
               cur == get_password(store, change_log.name)
           IN  /\ cur.updated_at >= old.updated_at
               /\ cur.updated_at >= cur.created_at
               /\ cur.created_at = old.created_at
               /\ cur.name = old.name
               /\ cur.username = old.username
               /\ cur.password = change_log.password
               /\ store.entries \ {cur} = change_log.entries \ {old}

\* The clock read by the closure is behind the entry's updated_at.
C7_Witness ==
    /\ ChangeAttempted
    /\ CalledWith("callback", "Ok")
    /\ PriorHas
    /\ change_log.time < PriorEntry.updated_at
    /\ change_log.password # PriorEntry.password
    /\ pc = "done"
    /\ exit_code = 0

\* C8: `change` on a name that is not in the store: change_password reports
\* NotFound, the callback returns Err(1), the store holds the entries it held
\* and none under that name, sync is not called, the file is as it was and
\* the exit code is not zero.
C8_ChangeOfAbsentNameFails ==
    (ChangeAttempted /\ ~PriorHas) =>
        /\ pc = "done"
        /\ msg = "couldnt_save_the_new_password_NotFound"
        /\ CalledWith("callback", "Err")
        /\ exit_code = 1
        /\ store.entries = change_log.entries
        /\ ~has_password(store, change_log.name)
        /\ ~Called("sync")
        /\ file_bytes = file0.bytes

C8_Witness ==
    /\ ChangeAttempted
    /\ ~PriorHas
    /\ change_log.name = "github"
    /\ has_password(store, "youtube")
    /\ pc = "done"

\* The run is inside get_password_file.
InGetPasswordFile == pc \in {"open", "prompt", "read_line", "new_master", "create"}

\* C9: get_password_file, once called, eventually returns (to main, with a
\* file or an error), whatever standard input holds.
C9_GetPasswordFileReturns == (pc = "open") ~> ~InGetPasswordFile

\* C10: a password file that was missing exists only after the answer 'y'
\* and a new master password read after it; an answer 'n', a failed read of
\* standard input or a failed read of the new master password end the run
\* with an error and no file; while the loop is asking, nothing is created.
C10_FileCreatedOnlyAfterYesAndPassword ==
    /\ (file_exists /\ ~file0.exists) =>
         /\ CalledWith("answer", "y")
         /\ CalledWith("new_master", "Ok")
         /\ CalledWith("create", "Created")
         /\ IndexOf("answer") < IndexOf("new_master")
         /\ IndexOf("new_master") < IndexOf("create")
    /\ (\/ CalledWith("answer", "n")
        \/ CalledWith("read_line", "Err")
        \/ CalledWith("new_master", "Err")) =>
         /\ pc = "done"
         /\ exit_code # 0
         /\ ~file_exists
    /\ (pc \in {"prompt", "read_line", "new_master"}) =>
         /\ ~file_exists
         /\ ~Called("create")
    /\ (pc \in {"prompt", "read_line"}) => ~Called("answer")
    /\ msg = "i_didnt_get_that" =>
         /\ pc = "prompt"
         /\ ~file_exists
         /\ exit_code = -1

\* The missing file was created and get_password_file returned it.
C10_Witness ==
    /\ file_exists
    /\ ~file0.exists
    /\ CalledWith("create", "Created")
    /\ pc = "read_file"

\* The arguments ask for no command to be executed: help (with or without a
\* command name), the version, no command at all, or a name that is not in the
\* command table.
NoCommandRun ==
    \/ args.help
    \/ args.version
    \/ args.free = <<>>
    \/ ~command_from_name(args.free[1]).some

\* C11: a run that executes no command never enters get_password_file (the
\* file is neither opened nor created and nothing is read from standard
\* input), is never asked for a master password, builds no store, calls no
\* command callback and no sync, and leaves the password file as it was.
C11_NoCommandRunTouchesNothing ==
    NoCommandRun =>
        /\ pc \in {"start", "done"}
        /\ trace = <<>>
        /\ master_password = NoPassword
        /\ input = EmptyBytes
        /\ store = NoStore
        /\ change_log = NoChange
        /\ file_exists = file0.exists
        /\ file_bytes = file0.bytes
        /\ pc = "done" => exit_code \in {0, 1}

\* Help was asked for a known command, with a password file holding a store.
C11_Witness ==
    /\ args.help
    /\ args.free = <<"change", "youtube">>
    /\ pc = "done"
    /\ exit_code = 0
    /\ msg = "command_help"
    /\ file0.exists
    /\ ~is_empty(file0.bytes)

====
